---------------------------- MODULE Spec2Model ----------------------------
(***************************************************************************)
(* k-means colour quantization (src/m-core.js): the seeded generator,      *)
(* nearestNeighbor, centroid, kMeans, quantize and rescaleDimensions.      *)
(*                                                                         *)
(* Channel values are JavaScript Numbers.  In kMeans, nearestNeighbor and  *)
(* quantize they are held as exact fractions <<num, den>> in lowest terms  *)
(* (integers are <<n, 1>>, Infinity is <<1, 0>>).  Array indices are the   *)
(* JavaScript 0-based indices; TLA+ sequences are 1-based, so a[i] of the  *)
(* source is a[i + 1] here.  rescaleDimensions is computed in IEEE-754     *)
(* doubles, rounding included.                                             *)
(***************************************************************************)
EXTENDS Integers, Sequences, FiniteSets, TLC

VARIABLES
    dataset,      \* kMeans: parameter dataset
    k,            \* kMeans: parameter k
    seed,         \* kMeans: state of the generator `random` of the call
    centroids,    \* kMeans: local centroids (the value returned)
    clusters,     \* kMeans: local clusters of the last pass, as dataset positions
    pc,           \* kMeans: "idle", "loop" (in while (true)), "done", "threw"
    error,        \* kMeans: the exception thrown, "none" without one
    hasPrev,      \* whether the previous call had the same arguments and returned
    prevPalette,  \* the palette that previous call returned
    globalSeed,   \* state of the module-level generator `random` (line 359)
    draws,        \* number of draws made on the module-level generator
    query,        \* nearestNeighbor: argument point
    candidates,   \* nearestNeighbor: argument neighbors
    found,        \* nearestNeighbor: [returned, index]
    image,        \* quantize: the pixels of argument img, in image-data order
    palette,      \* quantize: argument colors
    scope,        \* quantize: what the name `centroids` resolves to at line 214
    quantized,    \* quantize: [status, error, data], data the quantized image data
    size,         \* the [width, height] of an image
    budget,       \* the number of pixels to rescale to (pixels, resizedPixels)
    rescaled,     \* rescaleDimensions: [returned, w, h]
    built         \* getPixelDataset: [status, error, width, height, pixels]

kmVars == <<dataset, k, seed, centroids, clusters, pc, error, hasPrev,
            prevPalette, globalSeed, draws>>
nnVars == <<query, candidates, found>>
qVars == <<image, palette, scope, quantized>>
rsVars == <<size, budget, rescaled, built>>
vars == <<kmVars, nnVars, qVars, rsVars>>

(***************************************************************************)
(* Bounds of the model.                                                    *)
(***************************************************************************)
MaxLen == 3
MaxK == 4
MaxDraws == 2

\* Pixels fed to kMeans: one- and two-channel samples of the 0..255 domain.
Pixels1 == {<<0>>, <<1>>, <<3>>}
Pixels2 == {<<0, 0>>, <<1, 0>>, <<0, 2>>}

(***************************************************************************)
(* Numbers.                                                                *)
(***************************************************************************)
Abs(x) == IF x < 0 THEN -x ELSE x

Min(a, b) == IF a < b THEN a ELSE b

RECURSIVE GCD(_, _)
GCD(a, b) == IF b = 0 THEN a ELSE GCD(b, a % b)

Norm(n, d) == LET g == GCD(Abs(n), d) IN <<n \div g, d \div g>>

Num(n) == <<n, 1>>

Infinity == <<1, 0>>

RAdd(a, b) == Norm(a[1] * b[2] + b[1] * a[2], a[2] * b[2])

RSub(a, b) == Norm(a[1] * b[2] - b[1] * a[2], a[2] * b[2])

RMul(a, b) == Norm(a[1] * b[1], a[2] * b[2])

RDivInt(a, n) == Norm(a[1], a[2] * n)

RLess(a, b) == a[1] * b[2] < b[1] * a[2]

\* A sequence given as a function, evaluated once.
Evaluated(f) == SubSeq(f, 1, Len(f))

\* A Uint8ClampedArray slice of the image data as an array of Numbers.
ToNumbers(pixel) == Evaluated([j \in 1..Len(pixel) |-> Num(pixel[j])])

\* JavaScript undefined, which is no array of numbers.
Undefined == << <<0, 0>> >>

\* a[idx] of an array: undefined past its end.
At(a, idx) == IF idx >= 0 /\ idx < Len(a) THEN a[idx + 1] ELSE Undefined

(***************************************************************************)
(* createSeededRandom (lines 131-136).                                     *)
(***************************************************************************)
Multiplier == 9301
Increment == 49297
Modulus == 233280
DefaultSeed == 0

\* (a * b) % m without leaving 32 bits (a < 2^18, b < 2^14); the Number
\* arithmetic of the source is exact here.
MulMod(a, b, m) == (((a * (b \div 128)) % m) * 128 + a * (b % 128)) % m

\* seed = (seed * 9301 + 49297) % 233280
NextSeed(s) == (MulMod(s, Multiplier, Modulus) + Increment) % Modulus

\* a variant: Math.ceil in place of Math.floor
RandomIndexCeil(s, n) == (s * n) \div Modulus + 1
\* Math.floor(random() * n), random() having returned s / 233280
RandomIndex(s, n) == (s * n) \div Modulus

\* a variant: kMeans drawing on the module-level generator of line 359
SharedGenerator == globalSeed
\* const random = createSeededRandom(): the state a call's generator starts in
createSeededRandom == DefaultSeed

(***************************************************************************)
(* isArrayEqual (lines 19-23).                                             *)
(***************************************************************************)
isArrayEqual(arr1, arr2) ==
    IF Len(arr1) # Len(arr2) THEN FALSE
    ELSE \A i \in 1..Len(arr1) : arr1[i] = arr2[i]

(***************************************************************************)
(* nearestNeighbor (lines 90-105).                                         *)
(***************************************************************************)
RECURSIVE SumSq(_, _, _)
SumSq(point, neighbor, j) ==
    IF j >= Len(point) THEN Num(0)
    ELSE LET d == RSub(point[j + 1], neighbor[j + 1])
         IN  RAdd(RMul(d, d), SumSq(point, neighbor, j + 1))

\* dist after the inner loop: the squared distance
Dist(point, neighbor) == SumSq(point, neighbor, 0)

\* a variant: if (dist <= best_dist)
CloserOrEqual(dist, best_dist) == ~RLess(best_dist, dist)
\* if (dist < best_dist)
Closer(dist, best_dist) == RLess(dist, best_dist)

RECURSIVE NNScan(_, _, _, _, _)
NNScan(point, neighbors, i, best_dist, best_index) ==
    IF i >= Len(neighbors) THEN best_index
    ELSE LET dist == Dist(point, neighbors[i + 1])
         IN  IF Closer(dist, best_dist)
             THEN NNScan(point, neighbors, i + 1, dist, i)
             ELSE NNScan(point, neighbors, i + 1, best_dist, best_index)

nearestNeighbor(point, neighbors) == NNScan(point, neighbors, 0, Infinity, -1)

(***************************************************************************)
(* centroid (lines 114-128).                                               *)
(***************************************************************************)
RECURSIVE RunningMean(_, _, _)
RunningMean(ds, i, runningCentroid) ==
    IF i >= Len(ds) THEN runningCentroid
    ELSE RunningMean(ds, i + 1,
            Evaluated([j \in 1..Len(ds[i + 1]) |->
                RAdd(runningCentroid[j],
                     RDivInt(RSub(ds[i + 1][j], runningCentroid[j]), i + 1))]))

centroid(ds) ==
    IF Len(ds) = 0 THEN <<>>
    ELSE RunningMean(ds, 0, Evaluated([j \in 1..Len(ds[1]) |-> Num(0)]))

(***************************************************************************)
(* kMeans (lines 146-183).                                                 *)
(***************************************************************************)
\* lines 152-156: the initial centroids and the generator after drawing them
RECURSIVE InitialCentroids(_, _, _, _, _)
InitialCentroids(ds, kk, i, s, cents) ==
    IF i >= kk THEN [centroids |-> cents, seed |-> s]
    ELSE LET s2 == NextSeed(s)
             idx == RandomIndex(s2, Len(ds))
         IN  InitialCentroids(ds, kk, i + 1, s2, Append(cents, At(ds, idx)))

\* lines 161-163: nearest_centroid of every point, in dataset order
Nearest(ds, cents) ==
    Evaluated([p \in 1..Len(ds) |-> nearestNeighbor(ds[p], cents)])

\* lines 160-165: clusters[i] holds the positions of its points, in dataset order
Assignment(ds, nearest, kk) ==
    Evaluated([i \in 1..kk |->
        SelectSeq([p \in 1..Len(ds) |-> p], LAMBDA p : nearest[p] = i - 1)])

PointsOf(ds, cluster) == Evaluated([m \in 1..Len(cluster) |-> ds[cluster[m]]])

\* a variant: the loop left after its first pass
ConvergedAtOnce(converged, equal) == TRUE
\* line 177: converged = converged && isArrayEqual(centroid_i, centroids[i])
Converged(converged, equal) == converged /\ equal

\* lines 166-179: the update of the centroids, cluster by cluster
RECURSIVE UpdateFrom(_, _, _, _, _, _, _)
UpdateFrom(ds, cl, i, kk, cents, s, converged) ==
    IF i >= kk THEN [centroids |-> cents, seed |-> s, converged |-> converged,
                     threw |-> FALSE]
    ELSE LET empty == Len(cl[i + 1]) = 0
             s2 == IF empty THEN NextSeed(s) ELSE s
             centroid_i == IF empty THEN At(ds, RandomIndex(s2, Len(ds)))
                           ELSE centroid(PointsOf(ds, cl[i + 1]))
         IN  IF converged /\ (centroid_i = Undefined \/ cents[i + 1] = Undefined)
             THEN \* isArrayEqual reads .length of undefined
                  [centroids |-> cents, seed |-> s2, converged |-> FALSE,
                   threw |-> TRUE]
             ELSE UpdateFrom(ds, cl, i + 1, kk,
                             [cents EXCEPT ![i + 1] = centroid_i], s2,
                             Converged(converged,
                                       isArrayEqual(centroid_i, cents[i + 1])))

Datasets ==
    UNION {[1..n -> {ToNumbers(p) : p \in Pixels1}] : n \in 0..MaxLen}
    \cup UNION {[1..n -> {ToNumbers(p) : p \in Pixels2}] : n \in 1..MaxLen}

Ks == (-1)..MaxK

\* kMeans(dataset, k) up to the while loop
Enter(ds, kk) ==
    \E init \in {InitialCentroids(ds, kk, 0, createSeededRandom, <<>>)} :
        /\ dataset' = ds
        /\ k' = kk
        /\ seed' = init.seed
        /\ centroids' = init.centroids
        /\ clusters' = <<>>
        /\ pc' = "loop"
        /\ error' = "none"

\* a call kMeans(dataset, k)
Call ==
    /\ pc = "idle"
    /\ \E ds \in Datasets, kk \in Ks : Enter(ds, kk)
    /\ hasPrev' = FALSE
    /\ prevPalette' = <<>>
    /\ UNCHANGED <<globalSeed, draws, nnVars, qVars, rsVars>>

\* a call kMeans(dataset): if (k === undefined) k = Math.min(3, dataset.length)
CallDefault ==
    /\ pc = "idle"
    /\ \E ds \in Datasets : Enter(ds, Min(3, Len(ds)))
    /\ hasPrev' = FALSE
    /\ prevPalette' = <<>>
    /\ UNCHANGED <<globalSeed, draws, nnVars, qVars, rsVars>>

\* the same call once more, after it returned
CallAgain ==
    /\ pc = "done"
    /\ Enter(dataset, k)
    /\ hasPrev' = TRUE
    /\ prevPalette' = centroids
    /\ UNCHANGED <<globalSeed, draws, nnVars, qVars, rsVars>>

\* one pass of while (true), lines 157-181: what it leaves in the locals, and
\* whether the loop goes on, ends or throws
Pass(ds, kk, cents, s) ==
    IF kk < 0
    THEN \* Array(k): RangeError, invalid array length
         [centroids |-> cents, clusters |-> <<>>, seed |-> s,
          pc |-> "threw", error |-> "RangeError"]
    ELSE LET nearest == Nearest(ds, cents)
             cl == Assignment(ds, nearest, kk)
             up == UpdateFrom(ds, cl, 0, kk, cents, s, TRUE)
         IN  IF \E p \in 1..Len(ds) : nearest[p] = -1
             THEN \* clusters[-1].push: TypeError
                  [centroids |-> cents, clusters |-> <<>>, seed |-> s,
                   pc |-> "threw", error |-> "TypeError"]
             ELSE [centroids |-> up.centroids, clusters |-> cl, seed |-> up.seed,
                   pc |-> IF up.threw THEN "threw"
                          ELSE IF up.converged THEN "done" ELSE "loop",
                   error |-> IF up.threw THEN "TypeError" ELSE "none"]

Iterate ==
    /\ pc = "loop"
    /\ \E pass \in {Pass(dataset, k, centroids, seed)} :
        /\ centroids' = pass.centroids
        /\ clusters' = pass.clusters
        /\ seed' = pass.seed
        /\ pc' = pass.pc
        /\ error' = pass.error
    /\ UNCHANGED <<dataset, k, hasPrev, prevPalette, globalSeed, draws, nnVars,
                   qVars, rsVars>>

\* the caller takes the palette, or the exception, of the call
Return ==
    /\ pc \in {"done", "threw"}
    /\ dataset' = <<>>
    /\ k' = 0
    /\ seed' = 0
    /\ centroids' = <<>>
    /\ clusters' = <<>>
    /\ pc' = "idle"
    /\ error' = "none"
    /\ hasPrev' = FALSE
    /\ prevPalette' = <<>>
    /\ UNCHANGED <<globalSeed, draws, nnVars, qVars, rsVars>>

\* random() on the module-level generator (lines 359-365)
GlobalDraw ==
    /\ pc # "loop"
    /\ draws < MaxDraws
    /\ globalSeed' = NextSeed(globalSeed)
    /\ draws' = draws + 1
    /\ UNCHANGED <<dataset, k, seed, centroids, clusters, pc, error, hasPrev,
                   prevPalette, nnVars, qVars, rsVars>>

\* no call of kMeans yet
KMeansIdle ==
    /\ dataset = <<>>
    /\ k = 0
    /\ seed = 0
    /\ centroids = <<>>
    /\ clusters = <<>>
    /\ pc = "idle"
    /\ error = "none"
    /\ hasPrev = FALSE
    /\ prevPalette = <<>>
    /\ globalSeed = DefaultSeed
    /\ draws = 0

\* no call of nearestNeighbor yet
NearestIdle ==
    /\ query = <<>>
    /\ candidates = <<>>
    /\ found = [returned |-> FALSE, index |-> -1]

\* no call of quantize yet; nothing in the script defines a global `centroids`
\* (the one of line 338 is local to the timeout callback)
QuantizeIdle ==
    /\ image = <<>>
    /\ palette = <<>>
    /\ scope = [bound |-> FALSE, value |-> <<>>]
    /\ quantized = [status |-> "idle", error |-> "none", data |-> <<>>]

\* no call of rescaleDimensions or getPixelDataset yet
RescaleIdle ==
    /\ size = [width |-> 0, height |-> 0]
    /\ budget = 0
    /\ rescaled = [returned |-> FALSE, w |-> 0, h |-> 0]
    /\ built = [status |-> "idle", error |-> "none", width |-> 0, height |-> 0,
                pixels |-> 0]

Init == KMeansIdle /\ NearestIdle /\ QuantizeIdle /\ RescaleIdle

Next == Call \/ CallDefault \/ CallAgain \/ Iterate \/ Return \/ GlobalDraw

Spec == Init /\ [][Next]_vars

(***************************************************************************)
(* nearestNeighbor as a function of its arguments.                         *)
(***************************************************************************)
MaxColors == 3

\* Centroids: pixels and means of pixels, of one and of two channels.
Colors1 == {<<Num(0)>>, <<Norm(1, 2)>>, <<Num(2)>>, <<Num(3)>>}
Colors2 == {<<Num(0), Num(0)>>, <<Norm(1, 2), Norm(1, 2)>>, <<Norm(2, 3), Num(0)>>,
            <<Num(1), Num(0)>>, <<Num(1), Num(1)>>}

Palettes(cs) == UNION {[1..n -> cs] : n \in 0..MaxColors}

NearestInit ==
    /\ \/ query \in {ToNumbers(p) : p \in Pixels1} /\ candidates \in Palettes(Colors1)
       \/ query \in {ToNumbers(p) : p \in Pixels2} /\ candidates \in Palettes(Colors2)
    /\ found = [returned |-> FALSE, index |-> -1]
    /\ KMeansIdle
    /\ QuantizeIdle
    /\ RescaleIdle

\* nearestNeighbor(point, neighbors)
NearestCall ==
    /\ ~found.returned
    /\ found' = [returned |-> TRUE, index |-> nearestNeighbor(query, candidates)]
    /\ UNCHANGED <<query, candidates, kmVars, qVars, rsVars>>

NearestSpec == NearestInit /\ [][NearestCall]_vars

\* C4: for a non-empty sequence of candidates nearestNeighbor returns the lowest
\* index whose candidate is at the least squared distance from the point: no
\* candidate is nearer, and every candidate before it is farther.
NearestIsLowestMinimum ==
    (found.returned /\ Len(candidates) >= 1) =>
        /\ found.index \in 0..(Len(candidates) - 1)
        /\ \A i \in 1..Len(candidates) :
              ~RLess(Dist(query, candidates[i]), Dist(query, candidates[found.index + 1]))
        /\ \A i \in 1..found.index :
              RLess(Dist(query, candidates[found.index + 1]), Dist(query, candidates[i]))

\* nearestNeighbor returned the first of two distinct candidates at the same,
\* least distance, having passed a farther one
NearestTieWitness ==
    /\ found.returned
    /\ found.index = 1
    /\ Len(candidates) = 3
    /\ candidates[3] # candidates[2]
    /\ Dist(query, candidates[3]) = Dist(query, candidates[2])

(***************************************************************************)
(* quantize (lines 186-230).                                               *)
(***************************************************************************)
MaxPixels == 2

\* the conversion of a Number stored into a Uint8ClampedArray (line 216):
\* clamped to 0..255, rounded to the nearest integer, a tie to the even one
ToUint8Clamped(x) ==
    IF x[2] = 0 THEN (IF x[1] > 0 THEN 255 ELSE 0)
    ELSE IF x[1] <= 0 THEN 0
    ELSE IF x[1] >= 255 * x[2] THEN 255
    ELSE LET f == x[1] \div x[2]
             r == 2 * (x[1] % x[2])
         IN  IF r < x[2] THEN f
             ELSE IF r > x[2] THEN f + 1
             ELSE IF f % 2 = 0 THEN f ELSE f + 1

\* lines 215-217: flattened_quantized_data[i + j] = nearest_color[j]
Store(data, i, nearest_color) ==
    Evaluated([m \in 1..Len(data) |->
        IF m - 1 >= i /\ m - 1 < i + Len(nearest_color)
        THEN ToUint8Clamped(nearest_color[m - i])
        ELSE data[m]])

Thrown(e) == [status |-> "threw", error |-> e, data |-> <<>>]

\* lines 208-218, from pixel q on; n_channels is the length of a pixel
RECURSIVE QuantizeFrom(_, _, _, _, _)
QuantizeFrom(im, cols, sc, q, data) ==
    IF q >= Len(im) THEN [status |-> "returned", error |-> "none", data |-> data]
    ELSE LET current_pixel == ToNumbers(im[q + 1])
             nearest_color_index == nearestNeighbor(current_pixel, cols)
         IN  IF ~sc.bound
             THEN \* line 214: centroids is not defined
                  Thrown("ReferenceError")
             ELSE LET nearest_color == At(sc.value, nearest_color_index)
                  IN  IF nearest_color = Undefined
                      THEN \* line 215: nearest_color.length of undefined
                           Thrown("TypeError")
                      ELSE QuantizeFrom(im, cols, sc, q + 1,
                               Store(data, q * Len(im[1]), nearest_color))

\* quantize(img, colors), img given by its pixels; getImageData refuses an
\* image without pixels
Quantize(im, cols, sc) ==
    IF Len(im) = 0 THEN Thrown("IndexSizeError")
    ELSE QuantizeFrom(im, cols, sc, 0,
                      Evaluated([m \in 1..(Len(im) * Len(im[1])) |-> 0]))

Images(ps) == UNION {[1..n -> ps] : n \in 0..MaxPixels}

QuantizeInit ==
    /\ \/ image \in Images(Pixels1) /\ palette \in Palettes(Colors1)
       \/ image \in Images(Pixels2) /\ palette \in Palettes(Colors2)
    /\ scope = [bound |-> FALSE, value |-> <<>>]
    /\ quantized = [status |-> "idle", error |-> "none", data |-> <<>>]
    /\ KMeansIdle
    /\ NearestIdle
    /\ RescaleIdle

\* quantize(img, colors)
QuantizeCall ==
    /\ quantized.status = "idle"
    /\ quantized' = Quantize(image, palette, scope)
    /\ UNCHANGED <<image, palette, scope, kmVars, nnVars, rsVars>>

QuantizeSpec == QuantizeInit /\ [][QuantizeCall]_vars

\* the image data as pixels of c channels
PixelsOf(data, c) ==
    [q \in 1..(Len(data) \div c) |-> SubSeq(data, (q - 1) * c + 1, q * c)]

QuantizeArguments == Len(image) >= 1 /\ Len(palette) >= 1

\* C5: quantize returns image data of as many pixels and channels as img has,
\* each pixel the channels, clamped and rounded, of the colour of its argument
\* colors that nearestNeighbor gives for the pixel of img there.
QuantizeUsesItsPalette ==
    (quantized.status # "idle" /\ QuantizeArguments) =>
        /\ quantized.status = "returned"
        /\ Len(quantized.data) = Len(image) * Len(image[1])
        /\ \A q \in 1..Len(image) : \A j \in 1..Len(image[1]) :
              quantized.data[(q - 1) * Len(image[1]) + j] =
                ToUint8Clamped(
                    palette[nearestNeighbor(ToNumbers(image[q]), palette) + 1][j])

\* C6: quantize of the image quantize returned, with the same colors, returns
\* that image again.
QuantizeIdempotent ==
    (quantized.status # "idle" /\ QuantizeArguments) =>
        /\ quantized.status = "returned"
        /\ LET again == Quantize(PixelsOf(quantized.data, Len(image[1])),
                                 palette, scope)
           IN  again.status = "returned" /\ again.data = quantized.data

(***************************************************************************)
(* rescaleDimensions (lines 35-41) computes in IEEE-754 doubles: every      *)
(* operation gives the double nearest to the exact result, a tie going to  *)
(* the even significand.  A non-negative double is [m, e], the number      *)
(* m * 2^e; m is a natural number of any size, held as its digits in base  *)
(* 2^15, the least significant first (<<>> is zero).                       *)
(***************************************************************************)
LimbBits == 15
Base == 2^LimbBits
SignificandBits == 53

RECURSIVE Big(_)
Big(n) == IF n = 0 THEN <<>> ELSE <<n % Base>> \o Big(n \div Base)

RECURSIVE ToInt(_)
ToInt(a) == IF Len(a) = 0 THEN 0 ELSE a[1] + Base * ToInt(Tail(a))

RECURSIVE Trim(_)
Trim(a) ==
    IF Len(a) = 0 THEN a
    ELSE IF a[Len(a)] = 0 THEN Trim(SubSeq(a, 1, Len(a) - 1)) ELSE a

Limb(a, i) == IF i <= Len(a) THEN a[i] ELSE 0

Zeros(n) == Evaluated([i \in 1..n |-> 0])

RECURSIVE AddFrom(_, _, _, _)
AddFrom(a, b, i, carry) ==
    IF i > Len(a) /\ i > Len(b) THEN (IF carry = 0 THEN <<>> ELSE <<carry>>)
    ELSE LET t == Limb(a, i) + Limb(b, i) + carry
         IN  <<t % Base>> \o AddFrom(a, b, i + 1, t \div Base)

\* a + b; the sum has no leading zero digit unless a or b has
BAdd(a, b) == AddFrom(a, b, 1, 0)

\* a - b, for a >= b
RECURSIVE SubFrom(_, _, _, _)
SubFrom(a, b, i, borrow) ==
    IF i > Len(a) THEN <<>>
    ELSE LET t == a[i] - Limb(b, i) - borrow
         IN  IF t < 0 THEN <<t + Base>> \o SubFrom(a, b, i + 1, 1)
             ELSE <<t>> \o SubFrom(a, b, i + 1, 0)

BSub(a, b) == Trim(SubFrom(a, b, 1, 0))

RECURSIVE CmpFrom(_, _, _)
CmpFrom(a, b, i) ==
    IF i = 0 THEN 0
    ELSE IF a[i] < b[i] THEN -1
    ELSE IF a[i] > b[i] THEN 1
    ELSE CmpFrom(a, b, i - 1)

\* -1, 0 or 1 as a < b, a = b or a > b
BCmp(a, b) ==
    IF Len(a) < Len(b) THEN -1
    ELSE IF Len(a) > Len(b) THEN 1
    ELSE CmpFrom(a, b, Len(a))

RECURSIVE MulSmallFrom(_, _, _, _)
MulSmallFrom(a, c, i, carry) ==
    IF i > Len(a) THEN (IF carry = 0 THEN <<>> ELSE <<carry>>)
    ELSE LET t == a[i] * c + carry
         IN  <<t % Base>> \o MulSmallFrom(a, c, i + 1, t \div Base)

\* a * c, for c < Base
BMulSmall(a, c) == IF c = 0 THEN <<>> ELSE MulSmallFrom(a, c, 1, 0)

RECURSIVE MulFrom(_, _, _)
MulFrom(a, b, i) ==
    IF i > Len(b) THEN <<>>
    ELSE BAdd(Zeros(i - 1) \o BMulSmall(a, b[i]), MulFrom(a, b, i + 1))

BMul(a, b) == Trim(MulFrom(a, b, 1))

\* a * 2^s
BShl(a, s) ==
    IF Len(a) = 0 THEN a
    ELSE Zeros(s \div LimbBits) \o BMulSmall(a, 2^(s % LimbBits))

RECURSIVE DivSmallFrom(_, _, _, _)
DivSmallFrom(a, c, i, rem) ==
    IF i = 0 THEN <<>>
    ELSE LET t == rem * Base + a[i]
         IN  DivSmallFrom(a, c, i - 1, t % c) \o <<t \div c>>

\* a \div 2^s
BShr(a, s) ==
    LET q == s \div LimbBits
        hi == IF q >= Len(a) THEN <<>> ELSE SubSeq(a, q + 1, Len(a))
    IN  Trim(DivSmallFrom(hi, 2^(s % LimbBits), Len(hi), 0))

RECURSIVE IntBits(_)
IntBits(n) == IF n = 0 THEN 0 ELSE 1 + IntBits(n \div 2)

\* the number of binary digits of a
BitLen(a) ==
    IF Len(a) = 0 THEN 0 ELSE LimbBits * (Len(a) - 1) + IntBits(a[Len(a)])

IsOdd(a) == Len(a) > 0 /\ a[1] % 2 = 1

Max(a, b) == IF a > b THEN a ELSE b

\* an integer as a double (exact below 2^53)
Double(n) == [m |-> Big(n), e |-> 0]

\* the double nearest to q * 2^e, or, with sticky, to a number just above it
RoundToDouble(q, sticky, e) ==
    LET drop == BitLen(q) - SignificandBits
    IN  IF drop <= 0 THEN [m |-> q, e |-> e]
        ELSE LET m0 == BShr(q, drop)
                 rest == BSub(q, BShl(m0, drop))
                 c == BCmp(rest, BShl(<<1>>, drop - 1))
                 up == c > 0 \/ (c = 0 /\ (sticky \/ IsOdd(m0)))
             IN  [m |-> IF up THEN BAdd(m0, <<1>>) ELSE m0, e |-> e + drop]

\* a + c, for an a whose lowest digit leaves room for c
WithLow(a, c) == IF Len(a) = 0 THEN Big(c) ELSE [a EXCEPT ![1] = @ + c]

\* binary digit j of a, digit 0 the lowest
Bit(a, j) == (Limb(a, j \div LimbBits + 1) \div 2^(j % LimbBits)) % 2

DigitsAtOnce == 2^3

\* n more binary digits of the quotient s.q, s.r the remainder so far (< d)
RECURSIVE DivBits(_, _, _)
DivBits(s, d, n) ==
    IF n = 0 THEN s
    ELSE LET r2 == BMulSmall(s.r, 2)
         IN  IF BCmp(r2, d) >= 0
             THEN DivBits([q |-> WithLow(BMulSmall(s.q, 2), 1),
                           r |-> BSub(r2, d)], d, n - 1)
             ELSE DivBits([q |-> BMulSmall(s.q, 2), r |-> r2], d, n - 1)

\* n more binary digits of the quotient, DigitsAtOnce at a time; once nothing
\* remains the digits left are zeros
RECURSIVE DivDigits(_, _, _)
DivDigits(s, d, n) ==
    IF n = 0 THEN s
    ELSE LET c == Min(n, DigitsAtOnce)
             t == DivBits(s, d, c)
         IN  IF Len(t.r) = 0 THEN [q |-> BShl(t.q, n - c), r |-> t.r]
             ELSE DivDigits(t, d, n - c)

\* x / y of two positive doubles
FDiv(x, y) ==
    LET shiftN == Max(0, BitLen(y.m) - BitLen(x.m))
        shiftD == Max(0, BitLen(x.m) - BitLen(y.m))
        n1 == BShl(x.m, shiftN)
        d1 == BShl(y.m, shiftD)
        less == IF BCmp(n1, d1) < 0 THEN 1 ELSE 0
        n2 == BShl(n1, less)
        qr == DivDigits([q |-> <<1>>, r |-> BSub(n2, d1)], d1, SignificandBits + 1)
    IN  RoundToDouble(qr.q, Len(qr.r) > 0,
                      x.e - y.e - shiftN + shiftD - less - (SignificandBits + 1))

\* the square root of x two binary digits of x at a time, those from digits
\* 2i + 1 and 2i down to digits 2j + 1 and 2j: s.root the greatest number
\* whose square is at most the digits of x taken so far, s.rem what that
\* square leaves of them
RECURSIVE SqrtBits(_, _, _, _)
SqrtBits(x, s, i, j) ==
    IF i < j THEN s
    ELSE LET rem == WithLow(BMulSmall(s.rem, 4),
                            2 * Bit(x, 2 * i + 1) + Bit(x, 2 * i))
             trial == WithLow(BMulSmall(s.root, 4), 1)
         IN  IF BCmp(rem, trial) >= 0
             THEN SqrtBits(x, [root |-> WithLow(BMulSmall(s.root, 2), 1),
                               rem |-> BSub(rem, trial)], i - 1, j)
             ELSE SqrtBits(x, [root |-> BMulSmall(s.root, 2), rem |-> rem],
                           i - 1, j)

\* the binary digits of x below digit n are zeros
LowZeros(x, n) == BShl(BShr(x, n), n) = x

\* the same down to digits 1 and 0, DigitsAtOnce digits of the root at a
\* time; once nothing remains of x the digits left are zeros
RECURSIVE SqrtDigits(_, _, _)
SqrtDigits(x, s, i) ==
    IF i < 0 THEN s
    ELSE LET j == Max(0, i - DigitsAtOnce + 1)
             t == SqrtBits(x, s, i, j)
         IN  IF Len(t.rem) = 0 /\ LowZeros(x, 2 * j)
             THEN [root |-> BShl(t.root, j), rem |-> t.rem]
             ELSE SqrtDigits(x, t, j - 1)

\* Math.sqrt(x) of a positive double
FSqrt(x) ==
    LET u0 == 2 * (SignificandBits + 2) - 1 - BitLen(x.m)
        u == IF (x.e - u0) % 2 = 0 THEN u0 ELSE u0 + 1
        s == SqrtDigits(BShl(x.m, u), [root |-> <<>>, rem |-> <<>>],
                        SignificandBits + 1)
    IN  RoundToDouble(s.root, Len(s.rem) > 0, (x.e - u) \div 2)

\* x * y
FMul(x, y) == RoundToDouble(BMul(x.m, y.m), FALSE, x.e + y.e)

\* a variant: Math.ceil(x)
MathCeil(x) ==
    IF x.e >= 0 THEN ToInt(BShl(x.m, x.e))
    ELSE LET f == BShr(x.m, -x.e)
         IN  IF BCmp(BShl(f, -x.e), x.m) = 0 THEN ToInt(f) ELSE ToInt(f) + 1
\* Math.floor(x) of a non-negative double
MathFloor(x) ==
    IF x.e >= 0 THEN ToInt(BShl(x.m, x.e)) ELSE ToInt(BShr(x.m, -x.e))

rescaleDimensions(w, h, pixels) ==
    LET aspectRatio == FDiv(Double(w), Double(h))
        scalingFactor == FSqrt(FDiv(Double(pixels), aspectRatio))
        rescaledW == MathFloor(FMul(aspectRatio, scalingFactor))
        rescaledH == MathFloor(scalingFactor)
    IN  <<rescaledW, rescaledH>>

\* lines 64-78 for a canvas of canvas[1] by canvas[2]: the size of the canvas
\* and the number of pixels of the dataset, one per pixel of the canvas;
\* getImageData refuses a canvas without pixels
ReadCanvas(canvas) ==
    LET canvasWidth == canvas[1]
        canvasHeight == canvas[2]
        canvasNPixels == canvasWidth * canvasHeight
    IN  IF canvasNPixels = 0
        THEN [status |-> "threw", error |-> "IndexSizeError",
              width |-> canvasWidth, height |-> canvasHeight, pixels |-> 0]
        ELSE [status |-> "returned", error |-> "none",
              width |-> canvasWidth, height |-> canvasHeight,
              pixels |-> canvasNPixels]

\* getPixelDataset(img, resizedPixels) for an image of img.width by img.height
getPixelDataset(img, resizedPixels) ==
    LET imgNPixels == img.width * img.height
    IN  ReadCanvas(IF resizedPixels > 0 /\ imgNPixels > resizedPixels
                   THEN rescaleDimensions(img.width, img.height, resizedPixels)
                   ELSE <<img.width, img.height>>)

MaxDim == 13
MaxBudget == 13

\* larger calls: a square image within its budget, and one whose height
\* the doubles round down
Examples ==
    {[size |-> [width |-> 100, height |-> 100], budget |-> 10000],
     [size |-> [width |-> 9, height |-> 7], budget |-> 63]}

RescaleInit ==
    /\ \/ /\ size \in [width : 1..MaxDim, height : 1..MaxDim]
          /\ budget \in 0..MaxBudget
       \/ \E ex \in Examples : size = ex.size /\ budget = ex.budget
    /\ rescaled = [returned |-> FALSE, w |-> 0, h |-> 0]
    /\ built = [status |-> "idle", error |-> "none", width |-> 0, height |-> 0,
                pixels |-> 0]
    /\ KMeansIdle
    /\ NearestIdle
    /\ QuantizeIdle

\* rescaleDimensions(w, h, pixels), with the positive budget of line 62
RescaleCall ==
    /\ ~rescaled.returned
    /\ budget > 0
    /\ \E r \in {rescaleDimensions(size.width, size.height, budget)} :
           rescaled' = [returned |-> TRUE, w |-> r[1], h |-> r[2]]
    /\ UNCHANGED <<size, budget, built, kmVars, nnVars, qVars>>

\* getPixelDataset(img, resizedPixels)
GetPixelDatasetCall ==
    /\ built.status = "idle"
    /\ built' = getPixelDataset(size, budget)
    /\ UNCHANGED <<size, budget, rescaled, kmVars, nnVars, qVars>>

RescaleNext == RescaleCall \/ GetPixelDatasetCall

RescaleSpec == RescaleInit /\ [][RescaleNext]_vars

\* r = floor(sqrt(n / d)), for natural numbers n and d > 0
IsFloorSqrt(r, n, d) == r >= 0 /\ r * r * d <= n /\ (r + 1) * (r + 1) * d > n

LoopK == 11

\* an image of pixels growing brighter, and its first pixels
Ramp == <<ToNumbers(<<0>>), ToNumbers(<<1>>), ToNumbers(<<3>>)>>

LoopDatasets == {SubSeq(Ramp, 1, n) : n \in 1..Len(Ramp)}

LoopInit ==
    \E ds \in LoopDatasets, kk \in (1..MaxK) \cup {LoopK} :
        LET init == InitialCentroids(ds, kk, 0, createSeededRandom, <<>>)
        IN  /\ dataset = ds
            /\ k = kk
            /\ seed = init.seed
            /\ centroids = init.centroids
            /\ clusters = <<>>
            /\ pc = "loop"
            /\ error = "none"
            /\ hasPrev = FALSE
            /\ prevPalette = <<>>
            /\ globalSeed = DefaultSeed
            /\ draws = 0
            /\ NearestIdle
            /\ QuantizeIdle
            /\ RescaleIdle

LoopSpec == LoopInit /\ [][Iterate]_vars /\ WF_vars(Iterate)

\* the state in which the call entered while (true)
AtEntry ==
    LET init == InitialCentroids(dataset, k, 0, createSeededRandom, <<>>)
    IN  seed = init.seed /\ centroids = init.centroids

\* C2: the assignment/update loop of kMeans is bounded.  A pass is a function of
\* the centroids and the generator alone, so a bounded loop never comes back,
\* after a pass, to the state it was entered in: from there it would repeat
\* the same passes for ever.
LoopBounded == ~(pc = "loop" /\ clusters # <<>> /\ AtEntry)

(***************************************************************************)
(* Properties of kMeans.                                                   *)
(***************************************************************************)
\* an array of as many finite numbers as the dataset's pixels have channels
WellFormed(c, ds) ==
    /\ c # Undefined
    /\ Len(c) = Len(ds[1])
    /\ \A j \in 1..Len(c) : c[j][2] > 0

ValidCall == Len(dataset) >= 1 /\ 1 <= k /\ k <= Len(dataset)

\* C1: for a non-empty dataset and 1 <= k <= |dataset|, kMeans never throws,
\* its centroids are k arrays of C numbers at every pass and on return, so every
\* index drawn, at initialization or for an empty cluster, was one of the
\* dataset's (a drawn index past the end would leave an undefined centroid).
PaletteShape ==
    (pc # "idle" /\ ValidCall) =>
        /\ pc # "threw"
        /\ Len(centroids) = k
        /\ \A i \in 1..k : WellFormed(centroids[i], dataset)
        /\ RandomIndex(seed, Len(dataset)) \in 0..(Len(dataset) - 1)

\* kMeans returned k centroids, one of them drawn for an empty cluster
PaletteShapeWitness ==
    /\ pc = "done"
    /\ ValidCall
    /\ k >= 2
    /\ Len(dataset[1]) = 2
    /\ \E i \in 1..k : Len(clusters[i]) = 0

\* C3: when kMeans returns, every point's cluster of the last pass is the index
\* nearestNeighbor gives it among the returned centroids.
AssignmentStable ==
    pc = "done" =>
        \A i \in 1..Len(clusters) : \A m \in 1..Len(clusters[i]) :
            nearestNeighbor(dataset[clusters[i][m]], centroids) = i - 1

\* kMeans returned after more than one pass, with means that are no pixel
AssignmentStableWitness ==
    /\ pc = "done"
    /\ k >= 2
    /\ \E i \in 1..k : Len(clusters[i]) >= 2 /\ centroids[i][1][2] > 1

\* C7: a call repeated with the same arguments returns the same palette,
\* whatever was drawn on the module-level generator in between.
Deterministic ==
    (pc = "done" /\ hasPrev) => centroids = prevPalette

\* the repeated call returned, after draws on the module-level generator
DeterministicWitness ==
    /\ pc = "done"
    /\ hasPrev
    /\ draws > 0
    /\ Len(centroids) >= 2
    /\ centroids[1] # centroids[2]

\* C8: kMeans of an empty dataset, or with k < 1, fails with InvalidInput: it
\* neither returns nor throws anything else.
InvalidInputRejected ==
    (pc \in {"done", "threw"} /\ (Len(dataset) = 0 \/ k < 1)) =>
        (pc = "threw" /\ error = "InvalidInput")

\* C9: with k > |dataset| on a non-empty dataset the returned palette has
\* |dataset| centroids.
ClampedToDataset ==
    (pc = "done" /\ Len(dataset) >= 1 /\ k > Len(dataset)) =>
        Len(centroids) = Len(dataset)

=============================================================================
